---------------------------- MODULE Spec2Model ----------------------------
(***************************************************************************)
(* Model of the three WooCommerce stacks of this repository:               *)
(*                                                                         *)
(*   "function"      CdkWoocommerceStack      cdk-woocommerce-stack.ts     *)
(*   "functionCicd"  CdkWoocommerceStack1     cdk-woocommerce/lib/         *)
(*                                            cdk-woocommerce-cicd-stack.ts*)
(*   "container"     CdkWoocommerceCicdStack  cdk-woocommerce-cicd/lib/    *)
(*                                            cdk-woocommerce-cicd-stack.ts*)
(*                                                                         *)
(* Part I models the constructors: each statement of a constructor is one  *)
(* step that adds what it declares (tables, environment references,        *)
(* grants, API methods, distribution behaviours, pipeline stages) to the   *)
(* template being synthesized.                                             *)
(*                                                                         *)
(* Part II models the declared pipeline at run time.  The source only      *)
(* declares the pipeline, the build specification and the service; what    *)
(* runs them are the services these constructs configure.  The run-time    *)
(* rules used are the documented ones of those services for exactly the    *)
(* properties the source sets or leaves unset, and each is named where it  *)
(* is used.                                                                *)
(***************************************************************************)
EXTENDS Integers, Sequences, FiniteSets, TLC

VARIABLES
    topology,   \* which of the three stacks is constructed
    spc,        \* index of the next constructor statement to run
    tmpl,       \* the template synthesized so far
    runs,       \* completed constructor runs
    prevGrants, \* the grant statements of the previous completed run
    execs,      \* pipeline executions, in trigger order
    build,      \* the build container of the execution in the Build stage
    registry,   \* image registry: tag -> execution whose image it names
    service     \* the container service: task definition image and task

synthVars == <<spc, tmpl, runs, prevGrants>>
pipeVars == <<execs, build, registry, service>>
vars == <<topology, spc, tmpl, runs, prevGrants, execs, build, registry, service>>

(***************************************************************************)
(* Bounds of the model.                                                    *)
(***************************************************************************)
MaxRuns == 2
MaxPathLen == 3
MaxExec == 3

Topologies == {"function", "functionCicd", "container"}
CicdTopologies == {"functionCicd", "container"}
FunctionTopologies == {"function", "functionCicd"}

(***************************************************************************)
(*                     PART I  -  THE CONSTRUCTORS                         *)
(***************************************************************************)

\* new dynamodb.Table(this, <id>, {partitionKey: {name: <key>, ...}})
TableStmts ==
    << [op |-> "Table", id |-> "ProductsTable", partitionKey |-> "productId"],
       [op |-> "Table", id |-> "OrdersTable", partitionKey |-> "orderId"],
       [op |-> "Table", id |-> "CartTable", partitionKey |-> "cartId"] >>

\* new ecr.Repository(this, 'WooCommerceRepo')
RepositoryStmts == << [op |-> "Repository", id |-> "WooCommerceRepo"] >>

\* new lambda.Function(this, <id>, {..., environment: {<X>_TABLE: <table>.tableName}})
FunctionStmts ==
    << [op |-> "Function", id |-> "ProductsFunction", environment |-> {"ProductsTable"}],
       [op |-> "Function", id |-> "OrdersFunction", environment |-> {"OrdersTable"}],
       [op |-> "Function", id |-> "CartFunction", environment |-> {"CartTable"}] >>

\* taskDefinition.addContainer('WooCommerceContainer', {image:
\* ecs.ContainerImage.fromEcrRepository(ecrRepository), environment: {...}}):
\* fromEcrRepository is called without a tag, which names the tag 'latest'.
ContainerStmts ==
    << [op |-> "Container", id |-> "WooCommerceContainer",
        taskRole |-> "WooCommerceTaskDef.taskRole",
        image |-> [repo |-> "WooCommerceRepo", tag |-> "latest"],
        environment |-> {"ProductsTable", "OrdersTable", "CartTable"}] >>

\* <table>.grantReadWriteData(<grantee>) in the function stacks
FunctionGrantStmts ==
    << [op |-> "grantReadWriteData", table |-> "ProductsTable", grantee |-> "ProductsFunction"],
       [op |-> "grantReadWriteData", table |-> "OrdersTable", grantee |-> "OrdersFunction"],
       [op |-> "grantReadWriteData", table |-> "CartTable", grantee |-> "CartFunction"] >>

\* <table>.grantReadWriteData(taskDefinition.taskRole) in the container stack
ContainerGrantStmts ==
    << [op |-> "grantReadWriteData", table |-> "ProductsTable", grantee |-> "WooCommerceTaskDef.taskRole"],
       [op |-> "grantReadWriteData", table |-> "OrdersTable", grantee |-> "WooCommerceTaskDef.taskRole"],
       [op |-> "grantReadWriteData", table |-> "CartTable", grantee |-> "WooCommerceTaskDef.taskRole"] >>

\* api.root.addResource(<resource>).addMethod(<method>, new LambdaIntegration(<fn>))
MethodStmts ==
    << [op |-> "addMethod", resource |-> "products", method |-> "GET", integration |-> "ProductsFunction"],
       [op |-> "addMethod", resource |-> "products", method |-> "POST", integration |-> "ProductsFunction"],
       [op |-> "addMethod", resource |-> "orders", method |-> "GET", integration |-> "OrdersFunction"],
       [op |-> "addMethod", resource |-> "orders", method |-> "POST", integration |-> "OrdersFunction"],
       [op |-> "addMethod", resource |-> "cart", method |-> "GET", integration |-> "CartFunction"],
       [op |-> "addMethod", resource |-> "cart", method |-> "POST", integration |-> "CartFunction"] >>

\* The methods a behaviour forwards: AllowedMethods.ALLOW_ALL, and the methods
\* of a behaviour that sets no allowedMethods (GET and HEAD).
ALLOW_ALL == {"GET", "HEAD", "OPTIONS", "PUT", "PATCH", "POST", "DELETE"}
ALLOW_GET_HEAD == {"GET", "HEAD"}

\* defaultBehavior: {origin: new origins.S3Origin(wooCommerceAssets),
\* viewerProtocolPolicy: REDIRECT_TO_HTTPS}.  It sets neither cachePolicy nor
\* allowedMethods: a behaviour without a cachePolicy gets CACHING_OPTIMIZED.
DefaultBehavior ==
    [pathPattern |-> <<"*">>, origin |-> "S3Origin",
     allowedMethods |-> ALLOW_GET_HEAD,
     viewerProtocolPolicy |-> "REDIRECT_TO_HTTPS",
     cachePolicy |-> "CACHING_OPTIMIZED"]

\* A variant of the additional behaviours in which the orders rule is written
\* with the broader pattern '/api/*' and listed first.
AdditionalBehaviors_Overlap(t) ==
    IF t \in FunctionTopologies
    THEN << [pathPattern |-> <<"api", "*">>, origin |-> "HttpOrigin",
             allowedMethods |-> ALLOW_ALL, viewerProtocolPolicy |-> "HTTPS_ONLY",
             cachePolicy |-> "CACHING_DISABLED"],
            [pathPattern |-> <<"api", "products", "*">>, origin |-> "HttpOrigin",
             allowedMethods |-> ALLOW_ALL, viewerProtocolPolicy |-> "HTTPS_ONLY",
             cachePolicy |-> "CACHING_OPTIMIZED"],
            [pathPattern |-> <<"api", "cart", "*">>, origin |-> "HttpOrigin",
             allowedMethods |-> ALLOW_ALL, viewerProtocolPolicy |-> "HTTPS_ONLY",
             cachePolicy |-> "CACHING_DISABLED"] >>
    ELSE << [pathPattern |-> <<"api", "*">>, origin |-> "LoadBalancerV2Origin",
             allowedMethods |-> ALLOW_ALL, viewerProtocolPolicy |-> "HTTPS_ONLY",
             cachePolicy |-> "CACHING_DISABLED"],
            [pathPattern |-> <<"api", "products", "*">>, origin |-> "LoadBalancerV2Origin",
             allowedMethods |-> ALLOW_ALL, viewerProtocolPolicy |-> "HTTPS_ONLY",
             cachePolicy |-> "CACHING_OPTIMIZED"] >>

\* additionalBehaviors of the Distribution, in the order they are written.
\* A path pattern '/a/b/*' is the sequence of its segments <<"a", "b", "*">>.
AdditionalBehaviors(t) ==
    IF t \in FunctionTopologies
    THEN << [pathPattern |-> <<"api", "products", "*">>, origin |-> "HttpOrigin",
             allowedMethods |-> ALLOW_ALL, viewerProtocolPolicy |-> "HTTPS_ONLY",
             cachePolicy |-> "CACHING_OPTIMIZED"],
            [pathPattern |-> <<"api", "orders", "*">>, origin |-> "HttpOrigin",
             allowedMethods |-> ALLOW_ALL, viewerProtocolPolicy |-> "HTTPS_ONLY",
             cachePolicy |-> "CACHING_DISABLED"],
            [pathPattern |-> <<"api", "cart", "*">>, origin |-> "HttpOrigin",
             allowedMethods |-> ALLOW_ALL, viewerProtocolPolicy |-> "HTTPS_ONLY",
             cachePolicy |-> "CACHING_DISABLED"] >>
    ELSE << [pathPattern |-> <<"api", "*">>, origin |-> "LoadBalancerV2Origin",
             allowedMethods |-> ALLOW_ALL, viewerProtocolPolicy |-> "HTTPS_ONLY",
             cachePolicy |-> "CACHING_DISABLED"] >>

\* new cloudfront.Distribution(this, 'Distribution', {defaultBehavior, additionalBehaviors})
DistributionStmts(t) ==
    << [op |-> "Distribution", defaultBehavior |-> DefaultBehavior,
        additionalBehaviors |-> AdditionalBehaviors(t)] >>

\* The commands of the build specification.  $REPOSITORY_URI is the
\* repository 'WooCommerceRepo' (environmentVariables of the build project);
\* REV stands for $CODEBUILD_RESOLVED_SOURCE_VERSION.
REV == "$CODEBUILD_RESOLVED_SOURCE_VERSION"
Echo == [cmd |-> "echo", tag |-> "", src |-> "", name |-> ""]
NpmInstall == [cmd |-> "npm install", tag |-> "", src |-> "", name |-> ""]
DockerLogin == [cmd |-> "docker login", tag |-> "", src |-> "", name |-> ""]
DockerBuild(t) == [cmd |-> "docker build", tag |-> t, src |-> "", name |-> ""]
DockerTag(s, t) == [cmd |-> "docker tag", tag |-> t, src |-> s, name |-> ""]
DockerPush(t) == [cmd |-> "docker push", tag |-> t, src |-> "", name |-> ""]
PrintfImageDefinitions(n, t) == [cmd |-> "printf imagedefinitions.json", tag |-> t, src |-> "", name |-> n]

\* The phases of a build, in the order the build service runs them.
PhaseOrder == <<"install", "pre_build", "build", "post_build">>

\* A variant of the build specification whose image definitions file names
\* the container 'WooCommerce' and the image tagged 'latest'.
BuildSpec_WrongDescriptor(t) ==
    [install |-> <<Echo, NpmInstall>>,
     pre_build |-> <<Echo, DockerLogin>>,
     build |-> <<Echo, DockerBuild("latest"), DockerTag("latest", REV)>>,
     post_build |->
        IF t = "container"
        THEN <<Echo, DockerPush("latest"), DockerPush(REV), Echo,
               PrintfImageDefinitions("WooCommerce", "latest")>>
        ELSE <<Echo, DockerPush("latest"), DockerPush(REV)>>,
     artifacts |-> IF t = "container" THEN "imagedefinitions.json" ELSE "**/*"]

\* codebuild.BuildSpec.fromObject({version: '0.2', phases: {...}, artifacts: {...}})
BuildSpec(t) ==
    [install |-> <<Echo, NpmInstall>>,
     pre_build |-> <<Echo, DockerLogin>>,
     build |-> <<Echo, DockerBuild("latest"), DockerTag("latest", REV)>>,
     post_build |->
        IF t = "container"
        THEN <<Echo, DockerPush("latest"), DockerPush(REV), Echo,
               PrintfImageDefinitions("WooCommerceContainer", REV)>>
        ELSE <<Echo, DockerPush("latest"), DockerPush(REV)>>,
     artifacts |-> IF t = "container" THEN "imagedefinitions.json" ELSE "**/*"]

NoBuildSpec ==
    [install |-> <<>>, pre_build |-> <<>>, build |-> <<>>, post_build |-> <<>>,
     artifacts |-> ""]

\* new codebuild.PipelineProject(this, 'BuildProject', {buildSpec, ...})
BuildProjectStmts(t) ==
    << [op |-> "PipelineProject", id |-> "BuildProject", buildSpec |-> BuildSpec(t)] >>

\* A variant of the pipeline in which the Deploy stage is listed before Build.
Stages_Reordered(t) ==
    << [stageName |-> "Source", action |-> "GitHubSourceAction",
        input |-> "", output |-> "sourceOutput"],
       [stageName |-> "Deploy",
        action |-> IF t = "container" THEN "EcsDeployAction" ELSE "LambdaInvokeAction",
        input |-> IF t = "container" THEN "buildOutput" ELSE "",
        output |-> ""],
       [stageName |-> "Build", action |-> "CodeBuildAction",
        input |-> "sourceOutput", output |-> "buildOutput"] >>

\* stages: [{stageName, actions: [...]}, ...] of new codepipeline.Pipeline, with
\* the input and output artifacts of the one action of each stage.  The
\* LambdaInvokeAction of the function stack is given no inputs.
Stages(t) ==
    << [stageName |-> "Source", action |-> "GitHubSourceAction",
        input |-> "", output |-> "sourceOutput"],
       [stageName |-> "Build", action |-> "CodeBuildAction",
        input |-> "sourceOutput", output |-> "buildOutput"],
       [stageName |-> "Deploy",
        action |-> IF t = "container" THEN "EcsDeployAction" ELSE "LambdaInvokeAction",
        input |-> IF t = "container" THEN "buildOutput" ELSE "",
        output |-> ""] >>

\* new codepipeline.Pipeline(this, 'Pipeline', {pipelineName, stages}).  The
\* declaration sets no executionMode, which leaves the pipeline in the
\* service's default mode, SUPERSEDED.
PipelineStmts(t) ==
    << [op |-> "Pipeline", stages |-> Stages(t), executionMode |-> "SUPERSEDED"] >>

\* A variant of the registry grants whose explicit statement names every
\* resource.
RegistryGrantStmts_Star ==
    << [op |-> "grantPullPush", repository |-> "WooCommerceRepo", grantee |-> "BuildProject.role"],
       [op |-> "addToRolePolicy", grantee |-> "BuildProject.role",
        actions |-> {"ecr:GetDownloadUrlForLayer", "ecr:BatchGetImage", "ecr:CompleteLayerUpload"},
        resources |-> {"*"}] >>

\* ecrRepository.grantPullPush(buildProject.role!) and
\* buildProject.addToRolePolicy(new iam.PolicyStatement({actions, resources}))
RegistryGrantStmts ==
    << [op |-> "grantPullPush", repository |-> "WooCommerceRepo", grantee |-> "BuildProject.role"],
       [op |-> "addToRolePolicy", grantee |-> "BuildProject.role",
        actions |-> {"ecr:GetDownloadUrlForLayer", "ecr:BatchGetImage", "ecr:CompleteLayerUpload"},
        resources |-> {"WooCommerceRepo"}] >>

\* A variant of the function grants in which the third call names the orders
\* function again.
TableGrantStmts_WrongGrantee(t) ==
    IF t = "container"
    THEN ContainerGrantStmts
    ELSE << FunctionGrantStmts[1], FunctionGrantStmts[2],
            [op |-> "grantReadWriteData", table |-> "CartTable", grantee |-> "OrdersFunction"] >>

\* The three grantReadWriteData calls of a constructor.
TableGrantStmts(t) ==
    IF t = "container" THEN ContainerGrantStmts ELSE FunctionGrantStmts

\* The statements of each constructor that declare what the model follows, in
\* the order the constructor runs them.
Constructor(t) ==
    CASE t = "function" ->
            TableStmts \o FunctionStmts \o TableGrantStmts(t) \o MethodStmts
            \o DistributionStmts(t)
      [] t = "functionCicd" ->
            TableStmts \o RepositoryStmts \o FunctionStmts \o TableGrantStmts(t)
            \o MethodStmts \o DistributionStmts(t) \o BuildProjectStmts(t)
            \o PipelineStmts(t) \o RegistryGrantStmts
      [] t = "container" ->
            TableStmts \o RepositoryStmts \o ContainerStmts \o TableGrantStmts(t)
            \o DistributionStmts(t) \o BuildProjectStmts(t) \o PipelineStmts(t)
            \o RegistryGrantStmts

\* What repository.grantPullPush(grantee) adds to the policy of the grantee:
\* the pull actions on the repository, the registry login token on all
\* resources (the token cannot be given for one repository), and the push
\* actions on the repository.
PullActions ==
    {"ecr:BatchCheckLayerAvailability", "ecr:GetDownloadUrlForLayer", "ecr:BatchGetImage"}
PushActions ==
    {"ecr:PutImage", "ecr:InitiateLayerUpload", "ecr:UploadLayerPart",
     "ecr:CompleteLayerUpload"}
LoginActions == {"ecr:GetAuthorizationToken"}

GrantPullPush(repository, grantee) ==
    << [identity |-> grantee, actions |-> PullActions, resources |-> {repository}],
       [identity |-> grantee, actions |-> LoginActions, resources |-> {"*"}],
       [identity |-> grantee, actions |-> PushActions, resources |-> {repository}] >>

\* The template of a stack before its constructor body has run: super(scope, id, props).
EmptyTemplate ==
    [tables |-> {}, repositories |-> {}, identities |-> {}, envRefs |-> {},
     containers |-> {}, image |-> [repo |-> "", tag |-> ""],
     grants |-> <<>>, methods |-> {},
     defaults |-> <<>>, behaviors |-> <<>>,
     buildSpec |-> NoBuildSpec, stages |-> <<>>, executionMode |-> ""]

\* The effect of one constructor statement on the template.
ApplyStmt(tm, s) ==
    CASE s.op = "Table" -> [tm EXCEPT !.tables = @ \cup {s.id}]
      [] s.op = "Repository" -> [tm EXCEPT !.repositories = @ \cup {s.id}]
      [] s.op = "Function" ->
            [tm EXCEPT !.identities = @ \cup {s.id},
                       !.envRefs = @ \cup {<<s.id, tb>> : tb \in s.environment}]
      [] s.op = "Container" ->
            [tm EXCEPT !.identities = @ \cup {s.taskRole},
                       !.containers = @ \cup {s.id},
                       !.image = s.image,
                       !.envRefs = @ \cup {<<s.taskRole, tb>> : tb \in s.environment}]
      [] s.op = "grantReadWriteData" ->
            [tm EXCEPT !.grants = Append(@,
                [identity |-> s.grantee, actions |-> {"ReadData", "WriteData"},
                 resources |-> {s.table}])]
      [] s.op = "addMethod" ->
            [tm EXCEPT !.methods = @ \cup {<<s.resource, s.method>>}]
      [] s.op = "Distribution" ->
            [tm EXCEPT !.defaults = <<s.defaultBehavior>>,
                       !.behaviors = s.additionalBehaviors]
      [] s.op = "PipelineProject" -> [tm EXCEPT !.buildSpec = s.buildSpec]
      [] s.op = "Pipeline" ->
            [tm EXCEPT !.stages = s.stages, !.executionMode = s.executionMode]
      [] s.op = "grantPullPush" ->
            [tm EXCEPT !.grants = @ \o GrantPullPush(s.repository, s.grantee)]
      [] s.op = "addToRolePolicy" ->
            [tm EXCEPT !.grants = Append(@,
                [identity |-> s.grantee, actions |-> s.actions,
                 resources |-> s.resources])]

\* The template after the first n statements of the constructor.
RECURSIVE Synth(_, _)
Synth(t, n) ==
    IF n = 0 THEN EmptyTemplate ELSE ApplyStmt(Synth(t, n - 1), Constructor(t)[n])

Synthesized(t) == Synth(t, Len(Constructor(t)))

ConstructorDone == spc = Len(Constructor(topology)) + 1

(***************************************************************************)
(* Routing: which behaviour of the distribution serves a request path.     *)
(***************************************************************************)
Segments == {"api", "products", "orders", "cart", "index.html"}

RECURSIVE SeqsOfLen(_, _)
SeqsOfLen(S, n) ==
    IF n = 0 THEN {<<>>}
    ELSE {Append(q, x) : q \in SeqsOfLen(S, n - 1), x \in S}

\* The concrete request paths considered: '/a', '/a/b', ... as segment sequences.
Paths == UNION {SeqsOfLen(Segments, n) : n \in 1..MaxPathLen}

\* A pattern ending in '*' matches every path that continues its literal prefix.
Matches(pattern, path) ==
    /\ Len(path) >= Len(pattern)
    /\ \A i \in 1..(Len(pattern) - 1) : path[i] = pattern[i]

\* The rules of the distribution in precedence order: the additional
\* behaviours as listed, then the default behaviour.
Rules(tm) == tm.behaviors \o tm.defaults

\* The behaviour that serves a path: the first rule that matches it.
Resolve(tm, path) ==
    LET rs == Rules(tm)
        hit == {i \in 1..Len(rs) : Matches(rs[i].pathPattern, path)}
    IN  rs[CHOOSE i \in hit : \A j \in hit : i <= j]

WriteMethods == {"POST", "PUT", "PATCH", "DELETE"}

\* Whether the endpoint behind a rule accepts a state-changing method: the
\* API resource named by the rule's pattern ('/api/<resource>/*') declares
\* one; the container service behind the load balancer is sent every method
\* the rule allows; the bucket origin is only sent what its rule allows.
AcceptsWrite(tm, rule) ==
    IF rule.origin = "HttpOrigin"
    THEN /\ Len(rule.pathPattern) >= 3
         /\ \E m \in WriteMethods : <<rule.pathPattern[2], m>> \in tm.methods
    ELSE rule.allowedMethods \cap WriteMethods # {}

(***************************************************************************)
(* The constructor as a state machine.                                     *)
(***************************************************************************)
Revisions == {"r1", "r2"}
Tags == {"latest"} \cup Revisions

NoArtifact == [from |-> 0, files |-> "", entries |-> <<>>]
NoBuild ==
    [exec |-> 0, input |-> 0, phase |-> "", cmd |-> 0, failed |-> "",
     local |-> {}, pushed |-> {}, entries |-> <<>>]

\* Nothing has been triggered, built, pushed or started.
PipeIdle ==
    /\ execs = <<>>
    /\ build = NoBuild
    /\ registry = [tg \in Tags |-> 0]
    /\ service = [image |-> EmptyTemplate.image, task |-> 0]

SynthInit ==
    /\ topology \in Topologies
    /\ spc = 1
    /\ tmpl = EmptyTemplate
    /\ runs = 0
    /\ prevGrants = <<>>
    /\ PipeIdle

\* One statement of the constructor body runs.
ConstructStep ==
    /\ spc <= Len(Constructor(topology))
    /\ tmpl' = ApplyStmt(tmpl, Constructor(topology)[spc])
    /\ spc' = spc + 1
    /\ UNCHANGED <<topology, runs, prevGrants, pipeVars>>

\* The stack is synthesized again on the unchanged program: a new stack
\* object is constructed and the constructor body runs from its first line.
Resynth ==
    /\ ConstructorDone
    /\ runs < MaxRuns
    /\ runs' = runs + 1
    /\ prevGrants' = tmpl.grants
    /\ tmpl' = EmptyTemplate
    /\ spc' = 1
    /\ UNCHANGED <<topology, pipeVars>>

SynthNext == ConstructStep \/ Resynth

SynthSpec == SynthInit /\ [][SynthNext]_vars

(***************************************************************************)
(*                     PART II  -  THE PIPELINE AT RUN TIME                *)
(*                                                                         *)
(* An execution is [rev, at, status, src, consumed, out, pushed, applied,   *)
(* stopped]: the                                                           *)
(* revision that triggered it, the index of its stage in the declared      *)
(* stages, and its status there:                                           *)
(*   "InProgress"  the action of stage `at` is running                     *)
(*   "Waiting"     stage `at` succeeded; waits for stage at+1 to be free   *)
(*   "Succeeded", "Failed", "Superseded"   the execution has ended         *)
(* src and out are the artifacts its Source and Build actions produced,    *)
(* consumed the source artifact its build was given, pushed the tags its   *)
(* build pushed, applied the artifact its Deploy action was given, and     *)
(* stopped whether an operator stopped it.                                 *)
(*                                                                         *)
(* Pipeline rules (default execution mode, SUPERSEDED): a stage holds one  *)
(* execution at a time; an execution that finishes a stage enters the next *)
(* stage if it is free and waits for it otherwise; an execution waiting    *)
(* there is superseded by a newer one that arrives at the same place.      *)
(***************************************************************************)
Ended == {"Succeeded", "Failed", "Superseded"}

\* PipelineExecution.currentStage
CurrentStage(x) ==
    IF x.status \in Ended THEN x.status ELSE tmpl.stages[x.at].stageName

ExecIds == 1..Len(execs)

StageAction(x) == tmpl.stages[x.at].action

Running(e, action) ==
    /\ execs[e].status = "InProgress"
    /\ StageAction(execs[e]) = action

\* A stage is locked while an execution is being processed in it.
Locked(i) == \E e \in ExecIds : execs[e].status = "InProgress" /\ execs[e].at = i

Init ==
    /\ topology \in CicdTopologies
    /\ tmpl = Synthesized(topology)
    /\ spc = Len(Constructor(topology)) + 1
    /\ runs = 0
    /\ prevGrants = <<>>
    /\ execs = <<>>
    /\ build = NoBuild
    /\ registry = [tg \in Tags |-> 0]
    /\ service = [image |-> tmpl.image, task |-> 0]

\* The executions after execution e has ended the action of its stage i.  A
\* failure ends the execution; a success in the last stage ends it as
\* Succeeded; a success elsewhere takes it into stage i+1 if that stage is
\* free, and otherwise leaves it waiting for stage i+1, where it supersedes an
\* execution already waiting.  Stage i is free again, and the execution
\* that waited for it enters it.
Finish(xs, e, ok) ==
    LET i == xs[e].at
        nextFree == ~\E f \in 1..Len(xs) :
                        f # e /\ xs[f].status = "InProgress" /\ xs[f].at = i + 1
    IN  [f \in 1..Len(xs) |->
            IF f = e
            THEN IF ~ok THEN [xs[f] EXCEPT !.status = "Failed"]
                 ELSE IF i = Len(tmpl.stages) THEN [xs[f] EXCEPT !.status = "Succeeded"]
                 ELSE IF nextFree THEN [xs[f] EXCEPT !.at = i + 1]
                 ELSE [xs[f] EXCEPT !.status = "Waiting"]
            ELSE IF xs[f].status = "Waiting" /\ xs[f].at = i - 1
                 THEN [xs[f] EXCEPT !.at = i, !.status = "InProgress"]
            ELSE IF ok /\ ~nextFree /\ xs[f].status = "Waiting" /\ xs[f].at = i
                 THEN [xs[f] EXCEPT !.status = "Superseded"]
            ELSE xs[f]]

\* The artifact the action of the execution's stage is given as its input.
InputArtifact(x) ==
    CASE tmpl.stages[x.at].input = "buildOutput" -> x.out
      [] tmpl.stages[x.at].input = "sourceOutput" ->
            [from |-> x.src, files |-> "source", entries |-> <<>>]
      [] OTHER -> NoArtifact

\* The build container after a step: an execution that has just entered a
\* CodeBuildAction stage gets a fresh container, which is given the input
\* artifact of the action and starts with the first command of the install
\* phase.
BuildFor(xs, b) ==
    LET entered == {f \in 1..Len(xs) :
                       /\ xs[f].status = "InProgress"
                       /\ tmpl.stages[xs[f].at].action = "CodeBuildAction"
                       /\ b.exec # f}
    IN  IF entered = {} THEN b
        ELSE LET f == CHOOSE g \in entered : TRUE
             IN  [NoBuild EXCEPT !.exec = f, !.input = InputArtifact(xs[f]).from,
                                 !.phase = PhaseOrder[1], !.cmd = 1]

\* A change of revision r on the watched branch starts an execution in the
\* first stage.
Trigger(r) ==
    /\ Len(execs) < MaxExec
    /\ tmpl.stages # <<>>
    /\ ~Locked(1)
    /\ execs' = Append(execs,
          [rev |-> r, at |-> 1, status |-> "InProgress", src |-> 0,
           consumed |-> 0, out |-> NoArtifact, pushed |-> {},
           applied |-> NoArtifact, stopped |-> FALSE])
    /\ UNCHANGED <<topology, synthVars, build, registry, service>>

\* GitHubSourceAction ({output: sourceOutput}) fetches the revision.
SourceSucceed(e) ==
    /\ Running(e, "GitHubSourceAction")
    /\ execs' = Finish([execs EXCEPT ![e].src = e], e, TRUE)
    /\ build' = BuildFor(execs', build)
    /\ UNCHANGED <<topology, synthVars, registry, service>>

\* GitHubSourceAction fails (token, connectivity).
SourceFail(e) ==
    /\ Running(e, "GitHubSourceAction")
    /\ execs' = Finish(execs, e, FALSE)
    /\ build' = BuildFor(execs', build)
    /\ UNCHANGED <<topology, synthVars, registry, service>>

(***************************************************************************)
(* The Build stage: the build service runs the commands of the build       *)
(* specification one at a time.  Its rules for a specification that sets   *)
(* no on-failure (as this one): the commands of a phase run in order and   *)
(* the first that fails ends the phase as failed; a failed install or      *)
(* pre_build phase ends the build; a failed build phase is followed by     *)
(* post_build all the same; the build succeeds only if no phase failed.    *)
(***************************************************************************)
ResolveTag(t, rev) == IF t = REV THEN rev ELSE t

\* printf '..."imageUri":"%s"...' $REPOSITORY_URI:$CODEBUILD_RESOLVED_SOURCE_VERSION
FormatImageUri(repo, tag) == <<repo, ":", tag>>

\* docker tag and docker push need the local image they name.
CanSucceed(c, b, rev) ==
    CASE c.cmd = "docker tag" -> ResolveTag(c.src, rev) \in b.local
      [] c.cmd = "docker push" -> ResolveTag(c.tag, rev) \in b.local
      [] OTHER -> TRUE

\* The build container after command c has succeeded.
RunCommand(c, b, rev) ==
    CASE c.cmd \in {"docker build", "docker tag"} ->
            [b EXCEPT !.local = @ \cup {ResolveTag(c.tag, rev)}]
      [] c.cmd = "docker push" ->
            [b EXCEPT !.pushed = @ \cup {ResolveTag(c.tag, rev)}]
      [] c.cmd = "printf imagedefinitions.json" ->
            [b EXCEPT !.entries =
                <<[name |-> c.name,
                   imageUri |-> FormatImageUri("WooCommerceRepo", ResolveTag(c.tag, rev))]>>]
      [] OTHER -> b

PhaseIndex(p) == CHOOSE i \in 1..Len(PhaseOrder) : PhaseOrder[i] = p

\* The phase that follows phase p ("" ends the build).
AfterSuccess(p) ==
    IF PhaseIndex(p) < Len(PhaseOrder) THEN PhaseOrder[PhaseIndex(p) + 1] ELSE ""

\* A variant in which every failed phase ends the build.
AfterFailure_Abort(p) == ""

AfterFailure(p) == IF p = "build" THEN "post_build" ELSE ""

\* artifacts: {files: ...} of the build specification, uploaded as buildOutput
BuildArtifact(e, b) ==
    [from |-> e, files |-> tmpl.buildSpec.artifacts, entries |-> b.entries]

\* The next command of the build of execution e runs and succeeds (ok) or
\* fails.  Every command is run by the shell and can end with a failure
\* status: echo and printf too (a write error, a directory named
\* imagedefinitions.json in the checkout).
BuildStep(e, ok) ==
    /\ Running(e, "CodeBuildAction")
    /\ build.exec = e
    /\ LET cmds == tmpl.buildSpec[build.phase]
           c == cmds[build.cmd]
           rev == execs[e].rev
           good == ok /\ CanSucceed(c, build, rev)
           b1 == IF good THEN RunCommand(c, build, rev)
                 ELSE [build EXCEPT !.failed = IF @ = "" THEN build.phase ELSE @]
           last == build.cmd = Len(cmds)
           nextPhase == IF ~good THEN AfterFailure(build.phase)
                        ELSE IF last THEN AfterSuccess(build.phase)
                        ELSE build.phase
           nextCmd == IF good /\ ~last THEN build.cmd + 1 ELSE 1
       IN  /\ registry' = IF good /\ c.cmd = "docker push"
                          THEN [registry EXCEPT ![ResolveTag(c.tag, rev)] = e]
                          ELSE registry
           /\ IF nextPhase = ""
              THEN /\ execs' = Finish(
                         [execs EXCEPT ![e].pushed = b1.pushed,
                                       ![e].consumed = b1.input,
                                       ![e].out = IF b1.failed = ""
                                                  THEN BuildArtifact(e, b1)
                                                  ELSE NoArtifact],
                         e, b1.failed = "")
                   /\ build' = BuildFor(execs', NoBuild)
              ELSE /\ build' = [b1 EXCEPT !.phase = nextPhase, !.cmd = nextCmd]
                   /\ execs' = execs
    /\ UNCHANGED <<topology, synthVars, service>>

\* An operator stops the execution while its build runs (between two
\* commands; a push that has begun has either put its tag or not).  The
\* build container is stopped where it is: no further command runs, nothing
\* it has pushed is taken back, and the execution ends, counted as Failed.
CancelBuild(e) ==
    /\ Running(e, "CodeBuildAction")
    /\ build.exec = e
    /\ execs' = Finish([execs EXCEPT ![e].pushed = build.pushed,
                                     ![e].consumed = build.input,
                                     ![e].stopped = TRUE],
                       e, FALSE)
    /\ build' = BuildFor(execs', NoBuild)
    /\ UNCHANGED <<topology, synthVars, registry, service>>

(***************************************************************************)
(* The Deploy stage.                                                       *)
(***************************************************************************)
\* An image definitions file the deploy action can apply: every entry names
\* a container of the task definition and an image the registry holds.
DescriptorOk(a) ==
    /\ a.files = "imagedefinitions.json"
    /\ Len(a.entries) >= 1
    /\ \A i \in 1..Len(a.entries) :
          /\ a.entries[i].name \in tmpl.containers
          /\ Len(a.entries[i].imageUri) = 3
          /\ a.entries[i].imageUri[3] \in Tags
          /\ registry[a.entries[i].imageUri[3]] # 0

\* EcsDeployAction ({service: fargateService.service, input: buildOutput})
\* rolls the service to the image of the descriptor, and the new tasks pass
\* their health checks.
EcsDeploySucceed(e) ==
    /\ Running(e, "EcsDeployAction")
    /\ LET a == InputArtifact(execs[e])
       IN  /\ DescriptorOk(a)
           /\ execs' = Finish([execs EXCEPT ![e].applied = a], e, TRUE)
           /\ service' = [image |-> [repo |-> a.entries[1].imageUri[1],
                                     tag |-> a.entries[1].imageUri[3]],
                          task |-> registry[a.entries[1].imageUri[3]]]
    /\ build' = BuildFor(execs', build)
    /\ UNCHANGED <<topology, synthVars, registry>>

\* EcsDeployAction fails: the descriptor cannot be applied, or the new tasks
\* do not become healthy.  The tasks of the service keep running.
EcsDeployFail(e) ==
    /\ Running(e, "EcsDeployAction")
    /\ execs' = Finish([execs EXCEPT ![e].applied = InputArtifact(execs[e])], e, FALSE)
    /\ build' = BuildFor(execs', build)
    /\ UNCHANGED <<topology, synthVars, registry, service>>

\* LambdaInvokeAction ({lambda: productsFunction, userParameters: {...}}): the
\* function is invoked with the three function ARNs and reports success.  The
\* action is given no inputs and changes no function's code.
LambdaInvokeSucceed(e) ==
    /\ Running(e, "LambdaInvokeAction")
    /\ execs' = Finish([execs EXCEPT ![e].applied = InputArtifact(execs[e])], e, TRUE)
    /\ build' = BuildFor(execs', build)
    /\ UNCHANGED <<topology, synthVars, registry, service>>

LambdaInvokeFail(e) ==
    /\ Running(e, "LambdaInvokeAction")
    /\ execs' = Finish([execs EXCEPT ![e].applied = InputArtifact(execs[e])], e, FALSE)
    /\ build' = BuildFor(execs', build)
    /\ UNCHANGED <<topology, synthVars, registry, service>>

\* The container service (ApplicationLoadBalancedFargateService) starts its
\* first task from the image its task definition names, as soon as the
\* registry holds an image under that tag.  (Only the first start is
\* modelled: whether a replacement task resolves the tag again is left out.)
EcsStartTask ==
    /\ tmpl.containers # {}
    /\ service.task = 0
    /\ service.image.tag \in Tags
    /\ registry[service.image.tag] # 0
    /\ service' = [service EXCEPT !.task = registry[service.image.tag]]
    /\ UNCHANGED <<topology, synthVars, execs, build, registry>>

Next ==
    \/ \E r \in Revisions : Trigger(r)
    \/ \E e \in ExecIds : SourceSucceed(e)
    \/ \E e \in ExecIds : SourceFail(e)
    \/ \E e \in ExecIds, ok \in BOOLEAN : BuildStep(e, ok)
    \/ \E e \in ExecIds : CancelBuild(e)
    \/ \E e \in ExecIds : EcsDeploySucceed(e)
    \/ \E e \in ExecIds : EcsDeployFail(e)
    \/ \E e \in ExecIds : LambdaInvokeSucceed(e)
    \/ \E e \in ExecIds : LambdaInvokeFail(e)
    \/ EcsStartTask

Spec == Init /\ [][Next]_vars

(***************************************************************************)
(*                              THE CLAIMS                                 *)
(***************************************************************************)
Active(x) == x.status \notin Ended

\* How the current stage of an execution may change in one step.
StageMove(x, y) ==
    LET s == CurrentStage(x)
        u == IF y.status \in Ended THEN y.status ELSE tmpl.stages[y.at].stageName
    IN  \/ u = s
        \/ s = "Source" /\ u = "Build" /\ y.src # 0
        \/ s = "Build" /\ u = "Deploy" /\ y.out.from # 0
        \/ s = "Deploy" /\ x.status = "InProgress" /\ u = "Succeeded"
        \/ s \in {"Source", "Build", "Deploy"} /\ x.status = "InProgress" /\ u = "Failed"
        \/ s \in {"Source", "Build"} /\ x.status = "Waiting" /\ u = "Superseded"

\* C1: every execution of either pipeline starts in Source, enters Build only
\* from Source with its source artifact produced, enters Deploy only from
\* Build with its build artifact produced, reaches
\* Succeeded only from Deploy, and once Failed stays Failed (an execution
\* may also end early, superseded while it waits between two stages).
C1_StagesInOrder ==
    [][/\ \A e \in ExecIds : StageMove(execs[e], execs'[e])
       /\ \A e \in (1..Len(execs')) \ ExecIds :
             CurrentStage(execs'[e]) = "Source" /\ execs'[e].status = "InProgress"]_vars

\* One execution went through all three stages and another one failed.
C1_Witness ==
    /\ \E e \in ExecIds : execs[e].status = "Succeeded" /\ execs[e].at = 3
    /\ \E e \in ExecIds : execs[e].status = "Failed"

\* C2: while an execution is being processed in Build or Deploy, no other
\* execution of the pipeline is active (a later trigger's execution starts
\* only once it has ended), and no execution is dropped before it ran.
C2_OneActiveExecution ==
    /\ \A e, f \in ExecIds :
          (/\ e # f
           /\ execs[e].status = "InProgress"
           /\ CurrentStage(execs[e]) \in {"Build", "Deploy"})
             => ~Active(execs[f])
    /\ \A e \in ExecIds : execs[e].status # "Superseded"

\* C3: in a constructed stack, every path resolves to a rule whose cache
\* policy is disabled if the endpoint behind that rule accepts a write
\* method, and every rule with the optimized policy has a read-only endpoint.
C3_WritePathsNotCached ==
    ConstructorDone =>
        /\ \A path \in Paths :
              AcceptsWrite(tmpl, Resolve(tmpl, path))
                 => Resolve(tmpl, path).cachePolicy = "CACHING_DISABLED"
        /\ \A i \in 1..Len(Rules(tmpl)) :
              Rules(tmpl)[i].cachePolicy = "CACHING_OPTIMIZED"
                 => ~AcceptsWrite(tmpl, Rules(tmpl)[i])

TableActions == {"ReadData", "WriteData"}
TableGrants(tm) == {i \in 1..Len(tm.grants) : tm.grants[i].actions \cap TableActions # {}}

\* C4: in a constructed stack, an identity is granted read/write data on a
\* table exactly if its compute unit refers to that table; every table grant
\* names one table of the stack; the function stacks have exactly three table
\* grants, one per table.
C4_GrantsFollowEdges ==
    ConstructorDone =>
        /\ \A c \in tmpl.identities, tb \in tmpl.tables :
              (\E i \in TableGrants(tmpl) :
                    /\ tmpl.grants[i].identity = c
                    /\ tb \in tmpl.grants[i].resources
                    /\ TableActions \subseteq tmpl.grants[i].actions)
                 <=> <<c, tb>> \in tmpl.envRefs
        /\ \A i \in TableGrants(tmpl) :
              /\ tmpl.grants[i].identity \in tmpl.identities
              /\ \E tb \in tmpl.tables : tmpl.grants[i].resources = {tb}
        /\ topology \in FunctionTopologies =>
              /\ Cardinality(TableGrants(tmpl)) = 3
              /\ \A tb \in tmpl.tables :
                    Cardinality({i \in TableGrants(tmpl) : tmpl.grants[i].resources = {tb}}) = 1

\* A function stack is constructed with its three tables, three functions and
\* their grants.
C4_Witness ==
    /\ ConstructorDone
    /\ topology = "functionCicd"
    /\ Cardinality(tmpl.tables) = 3
    /\ Cardinality(tmpl.identities) = 3
    /\ Cardinality(tmpl.envRefs) = 3
    /\ TableGrants(tmpl) # {}

\* C6 as stated: no path is matched by two rules of different cache policy,
\* the default rule counted with the others.
C6_NoTwoPoliciesWithDefault ==
    ConstructorDone =>
        \A path \in Paths : \A i, j \in 1..Len(Rules(tmpl)) :
            Matches(Rules(tmpl)[i].pathPattern, path) /\ Matches(Rules(tmpl)[j].pathPattern, path)
               => Rules(tmpl)[i].cachePolicy = Rules(tmpl)[j].cachePolicy

\* C6 amended: no path is matched by two additional ('/api/...') behaviours
\* of different cache policy, and a path matched by an additional behaviour
\* is served by it and not by the default behaviour, which matches every path.
C6_ApiRulesAgree ==
    ConstructorDone =>
        \A path \in Paths :
            /\ \A i, j \in 1..Len(tmpl.behaviors) :
                  Matches(tmpl.behaviors[i].pathPattern, path)
                  /\ Matches(tmpl.behaviors[j].pathPattern, path)
                     => tmpl.behaviors[i].cachePolicy = tmpl.behaviors[j].cachePolicy
            /\ Matches(tmpl.defaults[1].pathPattern, path)
            /\ (\E i \in 1..Len(tmpl.behaviors) : Matches(tmpl.behaviors[i].pathPattern, path))
                  => Resolve(tmpl, path) # tmpl.defaults[1]

\* A function stack is constructed, and a path is matched by an additional
\* behaviour with caching disabled and by the default behaviour.
C6_Witness ==
    /\ ConstructorDone
    /\ topology = "function"
    /\ \E path \in Paths : \E i \in 1..Len(tmpl.behaviors) :
          /\ Matches(tmpl.behaviors[i].pathPattern, path)
          /\ tmpl.behaviors[i].cachePolicy = "CACHING_DISABLED"
          /\ Matches(tmpl.defaults[1].pathPattern, path)
          /\ tmpl.defaults[1].cachePolicy # "CACHING_DISABLED"

BuildRoleGrants(tm) == {i \in 1..Len(tm.grants) : tm.grants[i].identity = "BuildProject.role"}

\* The actions of the statement the constructors add with addToRolePolicy.
ExplicitActions ==
    {"ecr:GetDownloadUrlForLayer", "ecr:BatchGetImage", "ecr:CompleteLayerUpload"}

\* C8 (as claimed): in a constructed pipeline stack, the registry grants of
\* the build role are for pull, push, complete-layer-upload, get-download-url
\* and batch-get-image and nothing else, and every statement names the one
\* repository of the stack and nothing broader.
C8_RegistryGrants ==
    (ConstructorDone /\ topology \in CicdTopologies) =>
        /\ Cardinality(tmpl.repositories) = 1
        /\ PullActions \cup PushActions \cup ExplicitActions
              \subseteq UNION {tmpl.grants[i].actions : i \in BuildRoleGrants(tmpl)}
        /\ \A i \in BuildRoleGrants(tmpl) :
              /\ tmpl.grants[i].actions
                    \subseteq PullActions \cup PushActions \cup LoginActions \cup ExplicitActions
              /\ tmpl.grants[i].resources = tmpl.repositories

\* C8 (amended): the registry grants of the build role are the pull and push
\* actions, with complete-layer-upload, get-download-url and batch-get-image,
\* each in a statement that names the one repository of the stack and nothing
\* else; the only statement on a broader resource is the registry login
\* token, alone, on all resources.
C8_RegistryGrantsButLogin ==
    (ConstructorDone /\ topology \in CicdTopologies) =>
        /\ Cardinality(tmpl.repositories) = 1
        /\ UNION {tmpl.grants[i].actions :
                     i \in {j \in BuildRoleGrants(tmpl) :
                               tmpl.grants[j].resources = tmpl.repositories}}
              = PullActions \cup PushActions \cup ExplicitActions
        /\ \A i \in BuildRoleGrants(tmpl) :
              \/ tmpl.grants[i].resources = tmpl.repositories
              \/ /\ tmpl.grants[i].resources = {"*"}
                 /\ tmpl.grants[i].actions = LoginActions
        /\ \E i \in BuildRoleGrants(tmpl) :
              /\ tmpl.grants[i].actions = ExplicitActions
              /\ tmpl.grants[i].resources = tmpl.repositories

\* The container stack is constructed; its build role holds the statements
\* of grantPullPush, the login token on all resources among them, and the
\* explicit statement.
C8_Witness ==
    /\ ConstructorDone
    /\ topology = "container"
    /\ Cardinality(BuildRoleGrants(tmpl)) = 4
    /\ \E i \in BuildRoleGrants(tmpl) : tmpl.grants[i].resources = {"*"}

\* C9: a completed constructor run gives no (identity, action, resource)
\* twice, and gives the same grant statements as the run before it.
C9_DeriveIdempotent ==
    ConstructorDone =>
        /\ \A i, j \in 1..Len(tmpl.grants) :
              (i # j /\ tmpl.grants[i].identity = tmpl.grants[j].identity)
                 => \/ tmpl.grants[i].actions \cap tmpl.grants[j].actions = {}
                    \/ tmpl.grants[i].resources \cap tmpl.grants[j].resources = {}
        /\ runs >= 1 => tmpl.grants = prevGrants

\* What the service runs: the image reference of its task definition, the
\* image that reference names in the registry, and the image of its task.
ServiceArtifact ==
    [image |-> service.image,
     names |-> IF service.image.tag \in Tags THEN registry[service.image.tag] ELSE 0,
     task |-> service.task]

DeploySucceeds ==
    \E e \in ExecIds :
        /\ execs[e].status = "InProgress"
        /\ CurrentStage(execs[e]) = "Deploy"
        /\ execs'[e].status = "Succeeded"

\* C5: the image the service runs, with the tag it references, changes only
\* in a step in which a Deploy stage succeeds.
C5_OnlyDeployChangesArtifact ==
    [][ServiceArtifact' # ServiceArtifact => DeploySucceeds]_vars

\* C7: in the container stack, an execution whose Build succeeded holds a
\* descriptor with exactly one entry, which names a container of the task
\* definition and an image URI that ends in ':' and the execution's revision
\* and whose tag that build pushed; and no execution succeeded in Deploy
\* with a descriptor that lacks the image.
C7_DescriptorNamesPushedImage ==
    topology = "container" =>
        \A e \in ExecIds :
            /\ execs[e].out.from # 0 =>
                  /\ execs[e].out.from = e
                  /\ execs[e].out.files = "imagedefinitions.json"
                  /\ Len(execs[e].out.entries) = 1
                  /\ execs[e].out.entries[1].name \in tmpl.containers
                  /\ LET uri == execs[e].out.entries[1].imageUri
                     IN  /\ Len(uri) >= 2
                         /\ uri[Len(uri) - 1] = ":"
                         /\ uri[Len(uri)] = execs[e].rev
                         /\ uri[Len(uri)] \in execs[e].pushed
            /\ execs[e].status = "Succeeded" =>
                  /\ execs[e].applied = execs[e].out
                  /\ Len(execs[e].applied.entries) = 1
                  /\ execs[e].applied.entries[1].imageUri # <<>>

\* In the container stack a Build succeeded for revision r2, a later Deploy
\* succeeded, and another Deploy failed.
C7_Witness ==
    /\ topology = "container"
    /\ \E e \in ExecIds :
          /\ execs[e].rev = "r2"
          /\ execs[e].out.from = e
          /\ execs[e].status = "Succeeded"
    /\ \E e \in ExecIds :
          /\ execs[e].status = "Failed"
          /\ execs[e].at = 3

\* C10: the phases of a build run in the order install, pre_build (login),
\* build (build, tag), post_build (push); once a phase has failed no further
\* command of the build runs and nothing more is pushed.
C10_FailedPhaseEndsBuild ==
    [][/\ (build.exec # 0 /\ build'.exec = build.exec)
            => PhaseIndex(build'.phase) >= PhaseIndex(build.phase)
       /\ build.failed # "" => (build' = build /\ registry' = registry)]_vars

\* C11: after an operator has stopped an execution in Build, no command of
\* its build runs any more, the execution is Failed, and of the two tags of
\* that build ('latest' and the revision) the build pushed both or neither.
C11_CancelLeavesNoPartialPush ==
    \A e \in ExecIds :
        execs[e].stopped =>
            /\ build.exec # e
            /\ execs[e].status = "Failed"
            /\ ("latest" \in execs[e].pushed) <=> (execs[e].rev \in execs[e].pushed)

\* The files of the build artifact each CI/CD stack is to deploy: the whole
\* output tree in the function stack, the descriptor in the container stack.
ExpectedFiles == IF topology = "container" THEN "imagedefinitions.json" ELSE "**/*"

\* C12: in both CI/CD stacks a build is given the source artifact that the
\* Source stage of its own execution produced, and an execution whose Deploy
\* action has run was given the build artifact that its own Build stage
\* emitted (the whole output tree, resp. the descriptor): not an artifact
\* of another execution and not nothing.
C12_ArtifactsChained ==
    /\ build.exec # 0 =>
          /\ build.input = build.exec
          /\ execs[build.exec].src = build.exec
    /\ \A e \in ExecIds :
          /\ execs[e].consumed # 0 => execs[e].consumed = e
          /\ execs[e].out.from # 0 =>
                /\ execs[e].out.from = e
                /\ execs[e].consumed = e
          /\ (execs[e].at = Len(tmpl.stages) /\ execs[e].status \in {"Succeeded", "Failed"}) =>
                /\ execs[e].applied.from = e
                /\ execs[e].applied = execs[e].out
                /\ execs[e].applied.files = ExpectedFiles
=============================================================================
